---- MODULE Spec2Model ----
(***************************************************************************)
(* Model of packages/playwright-core/src/utils/comparators.ts: the         *)
(* comparator registry (getComparator) and the image, text and binary      *)
(* comparators.  The comparators are pure functions; the state machine     *)
(* draws one call's inputs in Init, selects the comparator and runs it.    *)
(*                                                                         *)
(* Values.  A JavaScript value is a record [type, val]: a string is a      *)
(* sequence of code points, a Buffer a sequence of bytes.  An optional     *)
(* option is <<>> (undefined) or <<v>>.  Real-valued options are held in   *)
(* hundredths (threshold 20 = 0.2, maxDiffPixelRatio 50 = 0.5); the values *)
(* drawn for them are doubles whose products with the pixel numbers are    *)
(* exact.  The ratio of the mismatch message is computed as the doubles    *)
(* compute it (ProductExceeds).                                            *)
(***************************************************************************)
EXTENDS Integers, Sequences, FiniteSets, TLC

VARIABLES mimeType, actualBuffer, expectedBuffer, options,
          comparator, result, calls, ratioArgs, ratioText, pc

vars == <<mimeType, actualBuffer, expectedBuffer, options,
          comparator, result, calls, ratioArgs, ratioText, pc>>

(***************************************************************************)
(* Bounds of the model.                                                    *)
(***************************************************************************)
\* longest string / text buffer drawn as an input
MaxLen == 2
\* largest pixel grid (width * height) drawn as an input
MaxPixels == 3
\* largest differing-pixel count fed to the ratio formatting on its own
MaxCount == 8

(***************************************************************************)
(* Sequences helpers.                                                      *)
(***************************************************************************)
SeqsUpTo(S, n) == UNION {[1..k -> S] : k \in 0..n}

Min(a, b) == IF a <= b THEN a ELSE b

Max(a, b) == IF a >= b THEN a ELSE b

\* smallest integer >= a / b, for a >= 0 and b > 0 (Math.ceil of the exact quotient)
CeilDiv(a, b) == (a + b - 1) \div b

None == <<>>

Some(v) == <<v>>

IsSome(o) == o # <<>>

(***************************************************************************)
(* JavaScript values.                                                      *)
(***************************************************************************)
Str(s) == [type |-> "string", val |-> s]

Buf(b) == [type |-> "Buffer", val |-> b]

\* the values that are neither a string nor a Buffer: undefined, 0 and a plain object
OtherValues ==
    { [type |-> "undefined", val |-> <<>>],
      [type |-> "number", val |-> <<0>>],
      [type |-> "object", val |-> <<>>] }

\* !v
Falsy(v) ==
    \/ v.type = "undefined"
    \/ v.type = "string" /\ v.val = <<>>
    \/ v.type = "number" /\ v.val = <<0>>

\* v instanceof Buffer
InstanceofBuffer(v) == v.type = "Buffer"

\* typeof v === 'string'
TypeofString(v) == v.type = "string"

(***************************************************************************)
(* Results.  ComparatorResult is null or { diff?, errorMessage }; a call   *)
(* can also end by throwing.  errorMessage is a template with its numeric  *)
(* arguments (args) and string arguments (sargs); for the text comparator  *)
(* the template is "%diff" and args is the rendered terminal text.         *)
(***************************************************************************)
Pending == [kind |-> "pending", errorMessage |-> "", args |-> <<>>, sargs |-> <<>>, diff |-> <<>>]

Null == [kind |-> "null", errorMessage |-> "", args |-> <<>>, sargs |-> <<>>, diff |-> <<>>]

Mismatch(msg, args, diff) ==
    [kind |-> "mismatch", errorMessage |-> msg, args |-> args, sargs |-> <<>>, diff |-> diff]

Throw(msg, sargs) ==
    [kind |-> "throw", errorMessage |-> msg, args |-> <<>>, sargs |-> sargs, diff |-> <<>>]

\* one call of an external collaborator: its name, the dimensions of the two grids
\* handed to it (expected, actual) and the number it returned
Call(fn, dims, ret) == [fn |-> fn, dims |-> dims, ret |-> ret]

(***************************************************************************)
(* Codec adapter (PNG.sync.read / PNG.sync.write / jpegjs.decode).  The    *)
(* codecs are external; they are modelled as a container format: a buffer  *)
(* <<width, height>> \o samples decodes to the grid of that width, height  *)
(* and samples (one sample per pixel: 0 black, 255 white), any other       *)
(* buffer is rejected (the decoder throws).                                *)
(***************************************************************************)
Sample == {0, 255}

Decode(buf) ==
    IF /\ Len(buf) >= 2
       /\ buf[1] >= 1
       /\ buf[2] >= 1
       /\ Len(buf) = 2 + buf[1] * buf[2]
       /\ \A i \in 3..Len(buf) : buf[i] \in Sample
    THEN [ok |-> TRUE, width |-> buf[1], height |-> buf[2], data |-> SubSeq(buf, 3, Len(buf))]
    ELSE [ok |-> FALSE, width |-> 0, height |-> 0, data |-> <<>>]

Encode(grid) == <<grid.width, grid.height>> \o grid.data

JPEG_JS_MAX_BUFFER_SIZE_IN_MB == 5 * 1024

PNG_sync_read(buf) == Decode(buf)

\* jpegjs.decode refuses an image whose pixel data would exceed maxMemoryUsageInMB
jpegjs_decode(buf, maxMemoryUsageInMB) ==
    LET g == Decode(buf)
    IN  IF g.ok /\ (g.width * g.height * 4) \div (1024 * 1024) >= maxMemoryUsageInMB
        THEN [ok |-> FALSE, width |-> 0, height |-> 0, data |-> <<>>]
        ELSE g

PNG_sync_write(grid) == Encode(grid)

(***************************************************************************)
(* Pixel-diff kernels (third_party/pixelmatch, image_tools/compare).       *)
(* Both return the number of differing pixels and write the visualization  *)
(* grid (255 where the pixel differs, 0 elsewhere); both refuse data      *)
(* arrays whose sizes do not match the width and height.                   *)
(***************************************************************************)
\* pixelmatch's YIQ colour delta of two grey samples (0.5053 * dy^2)
ColorDelta(a, b) == (5053 * (a - b) * (a - b)) \div 10000

\* pixelmatch: a pixel differs when delta > 35215 * threshold^2 (threshold in hundredths)
PixelDiffers(a, b, threshold) == ColorDelta(a, b) * 10000 > 35215 * threshold * threshold

\* image_tools/compare: a pixel differs when its CIE94 distance exceeds maxColorDeltaE94
\* (lightness difference of two grey samples, in hundredths of dE)
Cie94Differs(a, b, maxColorDeltaE94) ==
    (IF a >= b THEN a - b ELSE b - a) * 10000 > maxColorDeltaE94 * 255

\* the visualization grid of the pixels that differ
DiffData(differs) == [i \in 1..Len(differs) |-> IF differs[i] THEN 255 ELSE 0]

CountMarked(data) == Cardinality({i \in 1..Len(data) : data[i] = 255})

pixelmatch(img1, img2, width, height, threshold) ==
    IF Len(img1) # Len(img2) \/ Len(img1) # width * height
    THEN [ok |-> FALSE, count |-> 0, data |-> <<>>]
    ELSE LET data == DiffData([i \in 1..Len(img1) |-> PixelDiffers(img1[i], img2[i], threshold)])
         IN  [ok |-> TRUE, count |-> CountMarked(data), data |-> data]

compare(img1, img2, width, height, maxColorDeltaE94) ==
    IF Len(img1) # Len(img2) \/ Len(img1) # width * height
    THEN [ok |-> FALSE, count |-> 0, data |-> <<>>]
    ELSE LET data == DiffData([i \in 1..Len(img1) |->
                                  Cie94Differs(img1[i], img2[i], maxColorDeltaE94)])
         IN  [ok |-> TRUE, count |-> CountMarked(data), data |-> data]

(***************************************************************************)
(* Text-diff kernel (third_party/diff_match_patch).  diff_main yields an   *)
(* ordered edit script <<op, text>> over (text1, text2): a longest common  *)
(* subsequence script, one character per edit; diff_cleanupSemantic merges *)
(* the edits between two equalities into one deletion and one insertion.   *)
(***************************************************************************)
DIFF_DELETE == -1

DIFF_INSERT == 1

DIFF_EQUAL == 0

RECURSIVE LCSLen(_, _)
LCSLen(a, b) ==
    IF a = <<>> \/ b = <<>> THEN 0
    ELSE IF Head(a) = Head(b) THEN 1 + LCSLen(Tail(a), Tail(b))
    ELSE Max(LCSLen(Tail(a), b), LCSLen(a, Tail(b)))

RECURSIVE diff_main(_, _)
diff_main(text1, text2) ==
    IF text1 = <<>> /\ text2 = <<>> THEN <<>>
    ELSE IF text1 = <<>> THEN <<<<DIFF_INSERT, <<Head(text2)>>>>>> \o diff_main(text1, Tail(text2))
    ELSE IF text2 = <<>> THEN <<<<DIFF_DELETE, <<Head(text1)>>>>>> \o diff_main(Tail(text1), text2)
    ELSE IF Head(text1) = Head(text2)
         THEN <<<<DIFF_EQUAL, <<Head(text1)>>>>>> \o diff_main(Tail(text1), Tail(text2))
    ELSE IF LCSLen(Tail(text1), text2) >= LCSLen(text1, Tail(text2))
         THEN <<<<DIFF_DELETE, <<Head(text1)>>>>>> \o diff_main(Tail(text1), text2)
    ELSE <<<<DIFF_INSERT, <<Head(text2)>>>>>> \o diff_main(text1, Tail(text2))

\* the texts of the edits of kind op, concatenated in order
RECURSIVE ConcatOp(_, _)
ConcatOp(diffs, op) ==
    IF diffs = <<>> THEN <<>>
    ELSE (IF Head(diffs)[1] = op THEN Head(diffs)[2] ELSE <<>>) \o ConcatOp(Tail(diffs), op)

\* length of the leading run of equalities (eq) or of changes (~eq)
RunLen(diffs, eq) ==
    LET stop == {k \in 1..Len(diffs) : (diffs[k][1] = DIFF_EQUAL) # eq}
    IN  IF stop = {} THEN Len(diffs)
        ELSE (CHOOSE k \in stop : \A j \in stop : k <= j) - 1

Edit(op, text) == IF text = <<>> THEN <<>> ELSE <<<<op, text>>>>

RECURSIVE diff_cleanupSemantic(_)
diff_cleanupSemantic(diffs) ==
    IF diffs = <<>> THEN <<>>
    ELSE LET eq == diffs[1][1] = DIFF_EQUAL
             n == RunLen(diffs, eq)
             run == SubSeq(diffs, 1, n)
             rest == SubSeq(diffs, n + 1, Len(diffs))
         IN  (IF eq THEN Edit(DIFF_EQUAL, ConcatOp(run, DIFF_EQUAL))
              ELSE Edit(DIFF_DELETE, ConcatOp(run, DIFF_DELETE))
                   \o Edit(DIFF_INSERT, ConcatOp(run, DIFF_INSERT)))
             \o diff_cleanupSemantic(rest)

(***************************************************************************)
(* Terminal colours (utilsBundle colors): each style wraps the text in an  *)
(* opening and a closing escape code.  The escape code ESC[<n>m is the     *)
(* token -(n + 1); characters are code points >= 0.                        *)
(***************************************************************************)
Esc(n) == -(n + 1)

colors_green(text) == <<Esc(32)>> \o text \o <<Esc(39)>>

colors_red(text) == <<Esc(31)>> \o text \o <<Esc(39)>>

colors_strikethrough(text) == <<Esc(9)>> \o text \o <<Esc(29)>>

colors_reset(text) == <<Esc(0)>> \o text \o <<Esc(0)>>

(***************************************************************************)
(* Buffer primitives of the platform.                                      *)
(***************************************************************************)
\* Buffer.prototype.toString('utf-8') on one- and two-byte sequences; a byte that
\* starts no valid sequence decodes to U+FFFD
RECURSIVE Utf8Decode(_)
Utf8Decode(bytes) ==
    IF bytes = <<>> THEN <<>>
    ELSE IF bytes[1] < 128 THEN <<bytes[1]>> \o Utf8Decode(Tail(bytes))
    ELSE IF /\ bytes[1] >= 194 /\ bytes[1] <= 223
            /\ Len(bytes) >= 2 /\ bytes[2] >= 128 /\ bytes[2] <= 191
         THEN <<(bytes[1] - 192) * 64 + (bytes[2] - 128)>> \o Utf8Decode(SubSeq(bytes, 3, Len(bytes)))
    ELSE <<65533>> \o Utf8Decode(Tail(bytes))

\* Buffer.compare(a, b): -1, 0 or 1 by lexicographic byte order
RECURSIVE BufferCompare(_, _)
BufferCompare(a, b) ==
    IF a = <<>> /\ b = <<>> THEN 0
    ELSE IF a = <<>> THEN -1
    ELSE IF b = <<>> THEN 1
    ELSE IF Head(a) < Head(b) THEN -1
    ELSE IF Head(a) > Head(b) THEN 1
    ELSE BufferCompare(Tail(a), Tail(b))

(***************************************************************************)
(* The comparators.  Each is an operator from the call's arguments to      *)
(* [res, calls]: the ComparatorResult (or the throw) and the calls made to *)
(* the external collaborators, in order.                                   *)
(***************************************************************************)
Ret(res, log) == [res |-> res, calls |-> log]

\* diff_prettyTerminal with the styles of insertions and deletions exchanged
RECURSIVE diff_prettyTerminal_Swapped(_)
diff_prettyTerminal_Swapped(diffs) ==
    IF diffs = <<>> THEN <<>>
    ELSE LET op == Head(diffs)[1]
             text == Head(diffs)[2]
             html == CASE op = DIFF_DELETE -> colors_green(text)
                       [] op = DIFF_INSERT -> colors_reset(colors_strikethrough(colors_red(text)))
                       [] op = DIFF_EQUAL -> text
                       [] OTHER -> <<>>
         IN  html \o diff_prettyTerminal_Swapped(Tail(diffs))

\* diff_prettyTerminal: each edit styled by its operation, joined in order
RECURSIVE diff_prettyTerminal(_)
diff_prettyTerminal(diffs) ==
    IF diffs = <<>> THEN <<>>
    ELSE LET op == Head(diffs)[1]
             text == Head(diffs)[2]
             html == CASE op = DIFF_INSERT -> colors_green(text)
                       [] op = DIFF_DELETE -> colors_reset(colors_strikethrough(colors_red(text)))
                       [] op = DIFF_EQUAL -> text
                       [] OTHER -> <<>>
         IN  html \o diff_prettyTerminal(Tail(diffs))

\* compareText without its check of the kind of actual
compareText_NoTypeCheck(actual, expected_buffer) ==
    LET expected == Utf8Decode(expected_buffer)
    IN  IF expected = actual.val
        THEN Ret(Null, <<>>)
        ELSE LET d == diff_cleanupSemantic(diff_main(expected, actual.val))
             IN  Ret(Mismatch("%diff", diff_prettyTerminal(d), None),
                     <<Call("diff_main", <<>>, 0), Call("diff_cleanupSemantic", <<>>, 0)>>)

compareText(actual, expected_buffer) ==
    IF ~TypeofString(actual)
    THEN Ret(Mismatch("Actual result should be a string", <<>>, None), <<>>)
    ELSE LET expected == Utf8Decode(expected_buffer)
         IN  IF expected = actual.val
             THEN Ret(Null, <<>>)
             ELSE LET d == diff_cleanupSemantic(diff_main(expected, actual.val))
                  IN  Ret(Mismatch("%diff", diff_prettyTerminal(d), None),
                          <<Call("diff_main", <<>>, 0), Call("diff_cleanupSemantic", <<>>, 0)>>)

\* compareBuffersOrStrings comparing the lengths of the buffers instead of their bytes
compareBuffersOrStrings_LengthOnly(actual_buffer, expected_buffer) ==
    IF TypeofString(actual_buffer)
    THEN compareText(actual_buffer, expected_buffer)
    ELSE IF Falsy(actual_buffer) \/ ~InstanceofBuffer(actual_buffer)
    THEN Ret(Mismatch("Actual result should be a Buffer or a string.", <<>>, None), <<>>)
    ELSE IF Len(actual_buffer.val) # Len(expected_buffer)
    THEN Ret(Mismatch("Buffers differ", <<>>, None), <<>>)
    ELSE Ret(Null, <<>>)

compareBuffersOrStrings(actual_buffer, expected_buffer) ==
    IF TypeofString(actual_buffer)
    THEN compareText(actual_buffer, expected_buffer)
    ELSE IF Falsy(actual_buffer) \/ ~InstanceofBuffer(actual_buffer)
    THEN Ret(Mismatch("Actual result should be a Buffer or a string.", <<>>, None), <<>>)
    ELSE IF BufferCompare(actual_buffer.val, expected_buffer) # 0
    THEN Ret(Mismatch("Buffers differ", <<>>, None), <<>>)
    ELSE Ret(Null, <<>>)

\* the decoder bound to the sub-format
DecoderName(mime) == IF mime = "image/png" THEN "PNG.sync.read" ELSE "jpegjs.decode"

DecodeImage(mime, buf) ==
    IF mime = "image/png" THEN PNG_sync_read(buf)
    ELSE jpegjs_decode(buf, JPEG_JS_MAX_BUFFER_SIZE_IN_MB)

\* the dimension check looking at the widths alone
DimensionsDiffer_WidthOnly(expected, actual) == expected.width # actual.width

\* expected.width !== actual.width || expected.height !== actual.height
DimensionsDiffer(expected, actual) ==
    expected.width # actual.width \/ expected.height # actual.height

\* the comparator dispatch with pixelmatch as the fallback of every unknown name
PixelDiff_Fallback(opts, expected, actual) ==
    IF opts.comparator = Some("ssim-cie94")
    THEN [known |-> TRUE, fn |-> "compare",
          out |-> compare(expected.data, actual.data, expected.width, expected.height, 100)]
    ELSE [known |-> TRUE, fn |-> "pixelmatch",
          out |-> pixelmatch(expected.data, actual.data, expected.width, expected.height,
                             IF IsSome(opts.threshold) THEN opts.threshold[1] ELSE 20)]

\* the comparator dispatch: the kernel's answer and its name, or unknown
PixelDiff(opts, expected, actual) ==
    IF opts.comparator = Some("ssim-cie94")
    THEN [known |-> TRUE, fn |-> "compare",
          out |-> compare(expected.data, actual.data, expected.width, expected.height, 100)]
    ELSE IF (IF IsSome(opts.comparator) THEN opts.comparator[1] ELSE "pixelmatch") = "pixelmatch"
    THEN [known |-> TRUE, fn |-> "pixelmatch",
          out |-> pixelmatch(expected.data, actual.data, expected.width, expected.height,
                             IF IsSome(opts.threshold) THEN opts.threshold[1] ELSE 20)]
    ELSE [known |-> FALSE, fn |-> "", out |-> [ok |-> FALSE, count |-> 0, data |-> <<>>]]

\* the effective cap as the larger of the two caps
maxDiffPixels_Max(opts, expected) ==
    LET maxDiffPixels1 ==
            IF IsSome(opts.maxDiffPixels) THEN Some(opts.maxDiffPixels[1] * 100) ELSE None
        maxDiffPixels2 ==
            IF IsSome(opts.maxDiffPixelRatio)
            THEN Some(expected.width * expected.height * opts.maxDiffPixelRatio[1])
            ELSE None
    IN  IF IsSome(maxDiffPixels1) /\ IsSome(maxDiffPixels2)
        THEN Max(maxDiffPixels1[1], maxDiffPixels2[1])
        ELSE IF IsSome(maxDiffPixels1) THEN maxDiffPixels1[1]
        ELSE IF IsSome(maxDiffPixels2) THEN maxDiffPixels2[1]
        ELSE 0

\* the effective cap, in hundredths of a pixel
maxDiffPixels(opts, expected) ==
    LET maxDiffPixels1 ==
            IF IsSome(opts.maxDiffPixels) THEN Some(opts.maxDiffPixels[1] * 100) ELSE None
        maxDiffPixels2 ==
            IF IsSome(opts.maxDiffPixelRatio)
            THEN Some(expected.width * expected.height * opts.maxDiffPixelRatio[1])
            ELSE None
    IN  IF IsSome(maxDiffPixels1) /\ IsSome(maxDiffPixels2)
        THEN Min(maxDiffPixels1[1], maxDiffPixels2[1])
        ELSE IF IsSome(maxDiffPixels1) THEN maxDiffPixels1[1]
        ELSE IF IsSome(maxDiffPixels2) THEN maxDiffPixels2[1]
        ELSE 0

RECURSIVE Pow2(_)
Pow2(n) == IF n = 0 THEN 1 ELSE 2 * Pow2(n - 1)

\* 2^n modulo t
RECURSIVE Pow2Mod(_, _)
Pow2Mod(n, t) == IF n = 0 THEN 1 % t ELSE (2 * Pow2Mod(n - 1, t)) % t

\* the largest g with 2^g <= k, for k >= 1
RECURSIVE Log2Floor(_)
Log2Floor(k) == IF k < 2 THEN 0 ELSE 1 + Log2Floor(k \div 2)

\* the smallest j with count * 2^j >= total, for 1 <= count <= total
RECURSIVE BinadeShift(_, _)
BinadeShift(count, total) ==
    IF count >= total THEN 0 ELSE 1 + BinadeShift(2 * count, total)

\* Whether the double count / total * 100 lies above the exact quotient k when that
\* quotient is an integer.  count / total is rounded to 53 bits: with
\* s = 52 + BinadeShift it is (count * 2^s + rho) / (total * 2^s), where rho is the
\* signed distance of count * 2^s to the nearest multiple of total.  The product with
\* 100 is k + 100 * rho / (total * 2^s), and it rounds to a double above k exactly when
\* that excess is more than half a unit in the last place of k, 2^(Log2Floor(k) - 53).
\* When the exact quotient is no integer it is at least 1 / total away from one, and
\* the rounding (below 2^-45) cannot carry Math.ceil across it.
ProductExceeds(count, total) ==
    /\ count >= 1
    /\ (count * 100) % total = 0
    /\ LET k == (count * 100) \div total
           j == BinadeShift(count, total)
           r == (count * Pow2Mod(52 + j, total)) % total
           rho == IF 2 * r > total THEN total - r ELSE 0 - r
           scale == Pow2(j + Log2Floor(k))
       IN  scale <= 100 /\ 200 * rho > total * scale

\* Math.ceil(count / total * 100) / 100, in hundredths
Ratio(count, total) ==
    CeilDiv(count * 100, total) + (IF ProductExceeds(count, total) THEN 1 ELSE 0)

\* ratio.toFixed(2) of a ratio held in hundredths: <<integer part, two-digit fraction>>
ToFixed2(hundredths) == <<hundredths \div 100, hundredths % 100>>

\* the verdict with >= in place of >
Verdict_AtLeast(count, cap, ratio, diff) ==
    IF count * 100 >= cap
    THEN Mismatch("%d pixels (ratio %d.%02d of all image pixels) are different",
                  <<count>> \o ToFixed2(ratio), Some(PNG_sync_write(diff)))
    ELSE Null

\* count > maxDiffPixels ? { errorMessage, diff } : null
Verdict(count, cap, ratio, diff) ==
    IF count * 100 > cap
    THEN Mismatch("%d pixels (ratio %d.%02d of all image pixels) are different",
                  <<count>> \o ToFixed2(ratio), Some(PNG_sync_write(diff)))
    ELSE Null

compareImages(mime, actual_buffer, expected_buffer, opts) ==
    IF Falsy(actual_buffer) \/ ~InstanceofBuffer(actual_buffer)
    THEN Ret(Mismatch("Actual result should be a Buffer.", <<>>, None), <<>>)
    ELSE
    LET actual == DecodeImage(mime, actual_buffer.val)
        expected == DecodeImage(mime, expected_buffer)
        read == Call(DecoderName(mime), <<>>, 0)
    IN  IF ~actual.ok THEN Ret(Throw("Invalid image data", <<>>), <<read>>)
        ELSE IF ~expected.ok THEN Ret(Throw("Invalid image data", <<>>), <<read, read>>)
        ELSE IF DimensionsDiffer(expected, actual)
        THEN Ret(Mismatch("Expected an image %dpx by %dpx, received %dpx by %dpx. ",
                          <<expected.width, expected.height, actual.width, actual.height>>,
                          None),
                 <<read, read>>)
        ELSE
        LET d == PixelDiff(opts, expected, actual)
            dims == <<expected.width, expected.height, actual.width, actual.height>>
            diff == [width |-> expected.width, height |-> expected.height, data |-> d.out.data]
        IN  IF ~d.known
            THEN Ret(Throw("Configuration specifies unknown comparator \"%s\"", opts.comparator),
                     <<read, read>>)
            ELSE IF ~d.out.ok
            THEN Ret(Throw("Image sizes do not match.", <<>>),
                     <<read, read, Call(d.fn, dims, 0)>>)
            ELSE
            LET count == d.out.count
                cap == maxDiffPixels(opts, expected)
                ratio == Ratio(count, expected.width * expected.height)
                res == Verdict(count, cap, ratio, diff)
            IN  Ret(res,
                    <<read, read, Call(d.fn, dims, count)>>
                    \o (IF res.kind = "mismatch" THEN <<Call("PNG.sync.write", <<>>, 0)>> ELSE <<>>))

\* getComparator binding every image type to the PNG decoder
getComparator_AlwaysPng(mime) ==
    IF mime = "image/png" THEN [fn |-> "compareImages", bound |-> Some("image/png")]
    ELSE IF mime = "image/jpeg" THEN [fn |-> "compareImages", bound |-> Some("image/png")]
    ELSE IF mime = "text/plain" THEN [fn |-> "compareText", bound |-> None]
    ELSE [fn |-> "compareBuffersOrStrings", bound |-> None]

\* getComparator without its text/plain branch
getComparator_NoText(mime) ==
    IF mime = "image/png" THEN [fn |-> "compareImages", bound |-> Some("image/png")]
    ELSE IF mime = "image/jpeg" THEN [fn |-> "compareImages", bound |-> Some("image/jpeg")]
    ELSE [fn |-> "compareBuffersOrStrings", bound |-> None]

getComparator(mime) ==
    IF mime = "image/png" THEN [fn |-> "compareImages", bound |-> Some("image/png")]
    ELSE IF mime = "image/jpeg" THEN [fn |-> "compareImages", bound |-> Some("image/jpeg")]
    ELSE IF mime = "text/plain" THEN [fn |-> "compareText", bound |-> None]
    ELSE [fn |-> "compareBuffersOrStrings", bound |-> None]

(***************************************************************************)
(* Inputs of one call.                                                     *)
(***************************************************************************)
NoComparator == [fn |-> "", bound |-> None]

\* content-type tags: the three known ones, an unknown one and an absent one
MimeTypes == {"image/png", "image/jpeg", "text/plain", "application/octet-stream", ""}

ImageMimeTypes == {"image/png", "image/jpeg"}

\* bytes of text buffers: 'a', 'b' and the two bytes of U+00E9
TextByte == {97, 98, 195, 169}

\* code points of strings: 'a', 'b' and U+00E9
Char == {97, 98, 233}

\* 'abc' and 'abd'
ExampleTexts == {<<97, 98, 99>>, <<97, 98, 100>>}

TextBuffers == SeqsUpTo(TextByte, MaxLen) \cup ExampleTexts

Strings == SeqsUpTo(Char, MaxLen) \cup ExampleTexts

Dims == {d \in (1..MaxPixels) \X (1..MaxPixels) : d[1] * d[2] <= MaxPixels}

\* the encodings of every grid of at most MaxPixels pixels
ImageBuffers == UNION {{<<d[1], d[2]>> \o s : s \in [1..(d[1] * d[2]) -> Sample]} : d \in Dims}

NoOptions ==
    [comparator |-> None, threshold |-> None, maxDiffPixels |-> None, maxDiffPixelRatio |-> None]

BogusOptions == [NoOptions EXCEPT !.comparator = Some("bogus")]

\* comparator names: absent, the two known ones and an unknown one
ComparatorValues == {None, Some("pixelmatch"), Some("ssim-cie94"), Some("bogus")}

\* threshold: absent or 1.0
ThresholdValues == {None, Some(100)}

\* maxDiffPixels: absent, 0 or 1
MaxDiffPixelsValues == {None, Some(0), Some(1)}

\* maxDiffPixelRatio: absent, 0 or 0.5
MaxDiffPixelRatioValues == {None, Some(0), Some(50)}

ImageOptions ==
    {o \in [comparator : ComparatorValues, threshold : ThresholdValues,
            maxDiffPixels : MaxDiffPixelsValues, maxDiffPixelRatio : MaxDiffPixelRatioValues] :
        IsSome(o.threshold) => o.comparator \in {None, Some("ssim-cie94")}}

\* total pixel numbers fed to the ratio formatting on its own
RatioTotals == {1, 2, 3, 7, 25, 100, 101, 200, 201, 1000, 10000}

NoRatio == <<0, 0>>

(***************************************************************************)
(* Initial states: one call's arguments, nothing selected or run yet.      *)
(***************************************************************************)
\* text and binary comparisons, with every kind of actual value
InitText ==
    /\ mimeType \in MimeTypes \ ImageMimeTypes
    /\ actualBuffer \in {Str(t) : t \in Strings} \cup {Buf(b) : b \in TextBuffers} \cup OtherValues
    /\ expectedBuffer \in TextBuffers
    /\ options = NoOptions
    /\ ratioArgs = NoRatio
    /\ pc = "start"

\* image comparisons of values that are no images
InitNoImage ==
    /\ mimeType \in ImageMimeTypes
    /\ actualBuffer \in {Str(t) : t \in Strings} \cup {Buf(b) : b \in TextBuffers} \cup OtherValues
    /\ expectedBuffer \in TextBuffers
    /\ options \in {NoOptions, BogusOptions}
    /\ ratioArgs = NoRatio
    /\ pc = "start"

\* image comparisons of two encoded images, under every option
InitImage ==
    /\ mimeType \in ImageMimeTypes
    /\ actualBuffer \in {Buf(b) : b \in ImageBuffers}
    /\ expectedBuffer \in ImageBuffers
    /\ options \in ImageOptions
    /\ ratioArgs = NoRatio
    /\ pc = "start"

\* encoded images handed to the text and binary comparators
InitImageAsBytes ==
    /\ mimeType \in MimeTypes \ ImageMimeTypes
    /\ actualBuffer \in {Buf(b) : b \in ImageBuffers}
    /\ expectedBuffer \in ImageBuffers
    /\ options = NoOptions
    /\ ratioArgs = NoRatio
    /\ pc = "start"

\* the ratio formatting as a function of (count, total)
InitRatio ==
    /\ mimeType = ""
    /\ actualBuffer = Buf(<<>>)
    /\ expectedBuffer = <<>>
    /\ options = NoOptions
    /\ ratioArgs \in {a \in (1..MaxCount) \X RatioTotals : a[1] <= a[2]}
    /\ pc = "ratio"

Init ==
    /\ InitText \/ InitNoImage \/ InitImage \/ InitImageAsBytes \/ InitRatio
    /\ comparator = NoComparator
    /\ result = Pending
    /\ calls = <<>>
    /\ ratioText = <<>>

(***************************************************************************)
(* Actions.                                                                *)
(***************************************************************************)
\* const comparator = getComparator(mimeType)
GetComparator ==
    /\ pc = "start"
    /\ comparator' = getComparator(mimeType)
    /\ pc' = "selected"
    /\ UNCHANGED <<mimeType, actualBuffer, expectedBuffer, options, result, calls,
                   ratioArgs, ratioText>>

Finish(r) ==
    /\ result' = r.res
    /\ calls' = r.calls
    /\ pc' = "done"
    /\ UNCHANGED <<mimeType, actualBuffer, expectedBuffer, options, comparator,
                   ratioArgs, ratioText>>

\* comparator(actual, expected, options), the comparator being compareImages.bind(null, mime)
CompareImages ==
    /\ pc = "selected"
    /\ comparator.fn = "compareImages"
    /\ Finish(compareImages(comparator.bound[1], actualBuffer, expectedBuffer, options))

CompareText ==
    /\ pc = "selected"
    /\ comparator.fn = "compareText"
    /\ Finish(compareText(actualBuffer, expectedBuffer))

CompareBuffersOrStrings ==
    /\ pc = "selected"
    /\ comparator.fn = "compareBuffersOrStrings"
    /\ Finish(compareBuffersOrStrings(actualBuffer, expectedBuffer))

\* the ratio of the mismatch message, computed and formatted for (count, total)
FormatRatio ==
    /\ pc = "ratio"
    /\ ratioText' = ToFixed2(Ratio(ratioArgs[1], ratioArgs[2]))
    /\ pc' = "ratio_done"
    /\ UNCHANGED <<mimeType, actualBuffer, expectedBuffer, options, comparator, result,
                   calls, ratioArgs>>

Next ==
    \/ GetComparator
    \/ CompareImages
    \/ CompareText
    \/ CompareBuffersOrStrings
    \/ FormatRatio

Spec == Init /\ [][Next]_vars

(***************************************************************************)
(* Vocabulary of the properties.                                           *)
(***************************************************************************)
Done == pc = "done"

ImageCall == Done /\ comparator.fn = "compareImages"

TextCall == Done /\ comparator.fn = "compareText"

BinaryCall == Done /\ comparator.fn = "compareBuffersOrStrings"

\* actual is a Buffer and both buffers are encoded images
BothDecode ==
    /\ actualBuffer.type = "Buffer"
    /\ Decode(actualBuffer.val).ok
    /\ Decode(expectedBuffer).ok

ActualGrid == Decode(actualBuffer.val)

ExpectedGrid == Decode(expectedBuffer)

SameDimensions ==
    ActualGrid.width = ExpectedGrid.width /\ ActualGrid.height = ExpectedGrid.height

KnownAlgorithms == {"pixelmatch", "ssim-cie94"}

Unrecognized == IsSome(options.comparator) /\ options.comparator[1] \notin KnownAlgorithms

Kernels == {"pixelmatch", "compare"}

\* the calls of a pixel-diff kernel made by the call
PixelCalls == {i \in 1..Len(calls) : calls[i].fn \in Kernels}

\* the differing-pixel count the kernel returned
Count == calls[CHOOSE i \in PixelCalls : TRUE].ret

TotalPixels == ExpectedGrid.width * ExpectedGrid.height

PixelsMessage == "%d pixels (ratio %d.%02d of all image pixels) are different"

DimensionsMessage == "Expected an image %dpx by %dpx, received %dpx by %dpx. "

UnknownComparatorMessage == "Configuration specifies unknown comparator \"%s\""

\* the characters of a rendered diff that are unstyled or, with keepInserted,
\* insertion-styled (green), without it deletion-styled (reset, struck through, red);
\* a text that is no rendering of an edit script yields a sequence holding -1
RECURSIVE Unrender(_, _)
Unrender(msg, keepInserted) ==
    LET textLen(from) ==
            LET stop == {k \in from..Len(msg) : msg[k] < 0}
            IN  IF stop = {} THEN Len(msg) - from + 1
                ELSE (CHOOSE k \in stop : \A j \in stop : k <= j) - from
    IN  IF msg = <<>> THEN <<>>
        ELSE IF msg[1] >= 0 THEN <<msg[1]>> \o Unrender(Tail(msg), keepInserted)
        ELSE IF msg[1] = Esc(32)
        THEN LET n == textLen(2)
             IN  IF n >= 1 /\ Len(msg) >= n + 2 /\ msg[n + 2] = Esc(39)
                 THEN (IF keepInserted THEN SubSeq(msg, 2, n + 1) ELSE <<>>)
                      \o Unrender(SubSeq(msg, n + 3, Len(msg)), keepInserted)
                 ELSE <<-1>>
        ELSE IF Len(msg) >= 3 /\ SubSeq(msg, 1, 3) = <<Esc(0), Esc(9), Esc(31)>>
        THEN LET n == textLen(4)
             IN  IF /\ n >= 1
                    /\ Len(msg) >= n + 6
                    /\ SubSeq(msg, n + 4, n + 6) = <<Esc(39), Esc(29), Esc(0)>>
                 THEN (IF keepInserted THEN <<>> ELSE SubSeq(msg, 4, n + 3))
                      \o Unrender(SubSeq(msg, n + 7, Len(msg)), keepInserted)
                 ELSE <<-1>>
        ELSE <<-1>>

(***************************************************************************)
(* The claims.                                                             *)
(***************************************************************************)
\* C1 (as stated): a byte buffer compared against itself yields the match verdict
\* (null) under the comparator of every content-type tag.
C1_IdenticalBuffersAlwaysMatch ==
    (Done /\ actualBuffer = Buf(expectedBuffer) /\ options = NoOptions)
        => result = Null

\* C1 (amended): a byte buffer compared against itself yields null under the binary
\* comparator, and under an image comparator when the buffer decodes and the
\* algorithm is a known one; under text/plain it yields the "should be a string"
\* mismatch, and under an image tag a buffer that does not decode makes the call throw.
C1_IdenticalBuffers ==
    (Done /\ actualBuffer = Buf(expectedBuffer)) =>
        IF mimeType = "text/plain"
        THEN result = Mismatch("Actual result should be a string", <<>>, None)
        ELSE IF mimeType \in ImageMimeTypes
        THEN IF ~ExpectedGrid.ok THEN result.kind = "throw"
             ELSE IF Unrecognized THEN result.kind = "throw"
             ELSE result = Null
        ELSE result = Null

C1_Witness ==
    /\ Done
    /\ actualBuffer = Buf(expectedBuffer)
    /\ mimeType = "image/png"
    /\ ExpectedGrid.ok
    /\ TotalPixels = 2
    /\ result = Null

\* C2 (as stated): with an unrecognized comparator name the image comparator throws,
\* whatever the pixels and the dimensions of the two images are.
C2_UnrecognizedAlwaysThrows ==
    (ImageCall /\ BothDecode /\ Unrecognized) => result.kind = "throw"

\* C2 (amended): with an unrecognized comparator name and two images of equal
\* dimensions the image comparator throws the configuration error whatever the pixels
\* are; when the dimensions differ it returns the dimension mismatch instead.
C2_Unrecognized ==
    (ImageCall /\ BothDecode /\ Unrecognized) =>
        IF SameDimensions
        THEN result = Throw(UnknownComparatorMessage, options.comparator)
        ELSE result.kind = "mismatch" /\ result.errorMessage = DimensionsMessage

C2_Witness ==
    /\ ImageCall
    /\ BothDecode
    /\ Unrecognized
    /\ SameDimensions
    /\ ActualGrid.data # ExpectedGrid.data
    /\ result.kind = "throw"

\* the cap of claim C3, in hundredths of a pixel
ClaimedCap ==
    IF IsSome(options.maxDiffPixels) /\ IsSome(options.maxDiffPixelRatio)
    THEN Min(options.maxDiffPixels[1] * 100, TotalPixels * options.maxDiffPixelRatio[1])
    ELSE IF IsSome(options.maxDiffPixels) THEN options.maxDiffPixels[1] * 100
    ELSE IF IsSome(options.maxDiffPixelRatio) THEN TotalPixels * options.maxDiffPixelRatio[1]
    ELSE 0

\* C3: the effective cap is min(maxDiffPixels, width*height*maxDiffPixelRatio) when
\* both are given, the given one when one is given and 0 when none is; a comparison
\* that passes under two caps stays within each of them.
C3_EffectiveCap ==
    (ImageCall /\ PixelCalls # {}) =>
        /\ maxDiffPixels(options, ExpectedGrid) = ClaimedCap
        /\ result = Null =>
            /\ IsSome(options.maxDiffPixels) => Count <= options.maxDiffPixels[1]
            /\ IsSome(options.maxDiffPixelRatio) =>
                   Count * 100 <= TotalPixels * options.maxDiffPixelRatio[1]
            /\ options.maxDiffPixels = None /\ options.maxDiffPixelRatio = None => Count = 0

C3_Witness ==
    /\ ImageCall
    /\ PixelCalls # {}
    /\ IsSome(options.maxDiffPixels)
    /\ IsSome(options.maxDiffPixelRatio)
    /\ Count <= options.maxDiffPixels[1]
    /\ Count * 100 > TotalPixels * options.maxDiffPixelRatio[1]
    /\ result.kind = "mismatch"

\* C4: for two images of equal dimensions and a known algorithm the kernel is called,
\* and the verdict is null exactly when its count is within the effective cap and a
\* mismatch carrying the encoded visualization grid of the expected dimensions exactly
\* when the count exceeds it; with no cap given every count >= 1 is a mismatch.
C4_Verdict ==
    /\ (ImageCall /\ BothDecode /\ SameDimensions /\ ~Unrecognized) => PixelCalls # {}
    /\ (ImageCall /\ PixelCalls # {}) =>
        /\ result.kind \in {"null", "mismatch"}
        /\ result = Null <=> Count * 100 <= ClaimedCap
        /\ result.kind = "mismatch" =>
            /\ result.errorMessage = PixelsMessage
            /\ result.args[1] = Count
            /\ Len(result.diff) = 1
            /\ Decode(result.diff[1]).ok
            /\ Decode(result.diff[1]).width = ExpectedGrid.width
            /\ Decode(result.diff[1]).height = ExpectedGrid.height
        /\ (options.maxDiffPixels = None /\ options.maxDiffPixelRatio = None /\ Count >= 1)
               => result.kind = "mismatch"

C4_Witness ==
    /\ ImageCall
    /\ PixelCalls # {}
    /\ Count = 2
    /\ options.maxDiffPixels = Some(1)
    /\ result.kind = "mismatch"
    /\ result.diff = Some(<<ExpectedGrid.width, ExpectedGrid.height, 255, 255>>)

\* C5: when the decoded images differ in width or height the image comparator returns
\* the mismatch reporting both dimension pairs, without a diff payload, and no
\* pixel-diff kernel is ever called on grids of unequal dimensions.
C5_DimensionMismatch ==
    /\ (ImageCall /\ BothDecode /\ ~SameDimensions) =>
        /\ result = Mismatch(DimensionsMessage,
                             <<ExpectedGrid.width, ExpectedGrid.height,
                               ActualGrid.width, ActualGrid.height>>, None)
        /\ PixelCalls = {}
    /\ \A i \in PixelCalls :
        calls[i].dims[1] = calls[i].dims[3] /\ calls[i].dims[2] = calls[i].dims[4]

C5_Witness ==
    /\ ImageCall
    /\ BothDecode
    /\ ActualGrid.width = ExpectedGrid.width
    /\ ActualGrid.height # ExpectedGrid.height
    /\ result.kind = "mismatch"

\* C6: getComparator answers for every tag without an error: image/png and image/jpeg
\* give the image comparator bound to that sub-format (which decodes with that
\* sub-format's decoder), text/plain the text comparator, every other tag the binary one.
C6_Dispatch ==
    /\ pc = "start" => ENABLED GetComparator
    /\ pc = "selected" => result = Pending
    /\ pc \in {"selected", "done"} =>
        comparator =
            CASE mimeType = "image/png" -> [fn |-> "compareImages", bound |-> Some("image/png")]
              [] mimeType = "image/jpeg" -> [fn |-> "compareImages", bound |-> Some("image/jpeg")]
              [] mimeType = "text/plain" -> [fn |-> "compareText", bound |-> None]
              [] OTHER -> [fn |-> "compareBuffersOrStrings", bound |-> None]
    /\ (ImageCall /\ calls # <<>>) =>
        calls[1].fn = (IF mimeType = "image/png" THEN "PNG.sync.read" ELSE "jpegjs.decode")

C6_Witness ==
    /\ Done
    /\ mimeType = "image/jpeg"
    /\ calls # <<>>
    /\ calls[1].fn = "jpegjs.decode"

\* C7: an actual value of the wrong kind is reported as a mismatch with its fixed
\* message, never as a throw: a non-Buffer to the image comparator (under every
\* option, an unrecognized algorithm included), a non-string to the text comparator,
\* a value that is neither to the binary comparator.
C7_WrongKind ==
    /\ (ImageCall /\ actualBuffer.type # "Buffer") =>
        result = Mismatch("Actual result should be a Buffer.", <<>>, None)
    /\ (TextCall /\ actualBuffer.type # "string") =>
        result = Mismatch("Actual result should be a string", <<>>, None)
    /\ (BinaryCall /\ actualBuffer.type \notin {"string", "Buffer"}) =>
        result = Mismatch("Actual result should be a Buffer or a string.", <<>>, None)

C7_Witness ==
    /\ ImageCall
    /\ actualBuffer.type = "string"
    /\ actualBuffer.val # <<>>
    /\ Unrecognized
    /\ result.kind = "mismatch"

\* a ratio as printed, in hundredths
Printed(text) == text[1] * 100 + text[2]

\* r hundredths is count / total rounded up to two decimals
RoundedUp(r, count, total) ==
    /\ r >= 1
    /\ r * total >= count * 100
    /\ (r - 1) * total < count * 100

\* C8 (as stated): the ratio printed in the mismatch message is count / total rounded
\* up to two decimals: at least 0.01 for every count >= 1, never 0.00, never below
\* count / total, and the least such number of two decimals.
C8_RatioRoundedUp ==
    /\ pc = "ratio_done" => RoundedUp(Printed(ratioText), ratioArgs[1], ratioArgs[2])
    /\ (ImageCall /\ result.kind = "mismatch" /\ result.errorMessage = PixelsMessage) =>
        RoundedUp(Printed(SubSeq(result.args, 2, 3)), result.args[1], TotalPixels)

\* What the printed ratio does satisfy: at least 0.01, never below count / total, and
\* at most 0.01 above the least such number of two decimals.
RatioWithinOneHundredth ==
    pc = "ratio_done" =>
        LET r == Printed(ratioText)
        IN  /\ r >= 1
            /\ r * ratioArgs[2] >= ratioArgs[1] * 100
            /\ (r - 2) * ratioArgs[2] < ratioArgs[1] * 100

\* C9: the binary comparator answers a string actual as the text comparator does, and
\* a Buffer actual with null exactly when the two byte sequences are equal, otherwise
\* with the mismatch "Buffers differ" without a diff payload.
C9_Binary ==
    BinaryCall =>
        /\ actualBuffer.type = "string" =>
            /\ result = compareText(actualBuffer, expectedBuffer).res
            /\ result = Null <=> actualBuffer.val = Utf8Decode(expectedBuffer)
        /\ actualBuffer.type = "Buffer" =>
            /\ result = Null <=> actualBuffer.val = expectedBuffer
            /\ actualBuffer.val # expectedBuffer => result = Mismatch("Buffers differ", <<>>, None)

C9_Witness ==
    /\ BinaryCall
    /\ actualBuffer.type = "Buffer"
    /\ Len(actualBuffer.val) = Len(expectedBuffer)
    /\ Cardinality({i \in 1..Len(expectedBuffer) : actualBuffer.val[i] # expectedBuffer[i]}) = 1
    /\ result.kind = "mismatch"

\* C10: the text comparator answers a string actual with null exactly when it equals
\* the UTF-8 decoding of expected, and otherwise with a mismatch without diff payload
\* whose message renders an edit script in order: unstyled and insertion-styled text
\* spell actual, unstyled and deletion-styled text spell expected ('abc' against 'abd'
\* is 'ab', deleted 'd', inserted 'c'); a non-string actual gets the fixed message and
\* no diff is computed.
C10_Text ==
    TextCall =>
        /\ actualBuffer.type = "string" =>
            /\ result = Null <=> actualBuffer.val = Utf8Decode(expectedBuffer)
            /\ result # Null =>
                /\ result.kind = "mismatch"
                /\ result.diff = None
                /\ Unrender(result.args, TRUE) = actualBuffer.val
                /\ Unrender(result.args, FALSE) = Utf8Decode(expectedBuffer)
            /\ (actualBuffer.val = <<97, 98, 99>> /\ expectedBuffer = <<97, 98, 100>>) =>
                result.args = <<97, 98>>
                              \o <<Esc(0), Esc(9), Esc(31), 100, Esc(39), Esc(29), Esc(0)>>
                              \o <<Esc(32), 99, Esc(39)>>
        /\ actualBuffer.type # "string" =>
            /\ result = Mismatch("Actual result should be a string", <<>>, None)
            /\ calls = <<>>

C10_Witness ==
    /\ TextCall
    /\ actualBuffer = Str(<<97, 98, 99>>)
    /\ expectedBuffer = <<97, 98, 100>>
    /\ result.kind = "mismatch"

====
